---- MODULE Spec2Model ----
(***************************************************************************)
(* PTrieRep (memtable/terark_zip_memtable.cc): a memtable representation   *)
(* made of a vector of patricia tries keyed on the user key, whose payload *)
(* slots point at per-key version chains (threaded red-black trees ordered *)
(* by descending tag), with a sharded mutex array, a seal flag and a       *)
(* merging iterator.                                                       *)
(*                                                                         *)
(* An entry is identified by its (user_key, tag) pair; the value bytes the *)
(* node carries are copied verbatim by Insert and build_key and are never  *)
(* compared, so they are not part of the state.                            *)
(***************************************************************************)
EXTENDS Integers, Sequences, FiniteSets, TLC

\* ---------------------------------------------------------------- bounds
MaxTag == 2
MaxTries == 2
MaxEntries == 3

\* User keys are byte strings; <<1>> is a proper prefix of <<1, 1>>.
UserKeys == {<<1>>, <<1, 1>>}
\* Seek targets: the user keys and one that is never stored and sorts between.
SeekKeys == UserKeys \cup {<<1, 0>>}
Tags == 1..MaxTag
\* Tags a lookup or a seek may ask for: the stored ones and one older than all.
QueryTags == 0..MaxTag
\* The callback of Get returns false on its CbStop-th invocation (0: never).
CbStops == 0..MaxEntries

\* The sharding argument of the constructor: the number of mutexes.
ShardingCount == 3

\* One writer, one reader making point lookups, one reader using the iterator.
Threads == {"writer", "reader", "iterator"}

\* ------------------------------------------------------- program constants
num_words_update == 1024
\* trie_vec_.reserve(32)
trie_vec_capacity == 32

VARIABLES
  trie_vec_,      \* sequence of tries; a trie maps a user key to its chain
  immutable_,     \* the seal flag
  num_entries_,   \* number of Insert calls that returned
  it_state,       \* "none" or "live": whether the iterator object exists
  multi,          \* template parameter: heap of Items or a single Item
  Lock,           \* template parameter: "MutexLock" or "DummyLock"
  heap_array_,    \* the Items, one per trie seen by the constructor
  heap_,          \* pointers (indices) into heap_array_
  heap_size_,
  direction_,
  where_,         \* the current version node, or nil_sentinel
  buffer_,        \* the key built for the current position
  alive,          \* the Items of heap_array_ / item_ constructed and not destroyed
  root,           \* the payload slots written so far, each with its chain header
  allocator_,     \* the allocator: its BlockSize(), a 64-bit value
  block_size,     \* the block size each trie was constructed with
  mutex_,         \* the shard mutexes: the thread holding each, or "free"
  pc,             \* where each thread stands in the call it is making
  inserted,       \* history: every (user_key, tag) handed to Insert
  locks,          \* history: payload slots whose shard mutex the last call locked
  ret,            \* history: the Contains / Get call that has just returned
  scan            \* history: the scan the iterator is in and what it emitted

memVars == <<allocator_, block_size>>
repVars == <<trie_vec_, immutable_, num_entries_, root, allocator_, block_size>>
itVars == <<it_state, multi, Lock, heap_array_, heap_, heap_size_, direction_,
            where_, buffer_, alive>>
thrVars == <<mutex_, pc>>
vars == <<trie_vec_, immutable_, num_entries_, root, it_state, multi, Lock,
          heap_array_, heap_, heap_size_, direction_, where_, buffer_, alive,
          allocator_, block_size, mutex_, pc, inserted, locks, ret, scan>>

\* ------------------------------------------------------------ byte strings
Min(a, b) == IF a < b THEN a ELSE b

\* memcmp order on byte strings, a proper prefix sorting first.
LexLess(a, b) ==
  \E i \in 1..(Min(Len(a), Len(b)) + 1) :
    /\ \A j \in 1..(i - 1) : a[j] = b[j]
    /\ \/ i > Len(a) /\ i <= Len(b)
       \/ i <= Len(a) /\ i <= Len(b) /\ a[i] < b[i]

LexLeq(a, b) == a = b \/ LexLess(a, b)

\* ------------------------------------------- version chain (threaded rbtree)
\* A chain is the in-order sequence of the tags of its nodes.
nil_sentinel == [trie |-> 0, key |-> <<>>, tag |-> 0]

\* std::less in the place of std::greater.
key_compare_t_less(a, b) == a < b

\* std::greater<uint64_t>: the chain is ordered by descending tag.
key_compare_t(a, b) == a > b

\* threaded_rbtree_find_path_for_multi + threaded_rbtree_insert: the new node
\* goes after every node that does not order after it.
threaded_rbtree_insert(chain, tag) ==
  LET before == SelectSeq(chain, LAMBDA e : ~key_compare_t(tag, e))
      after == SelectSeq(chain, LAMBDA e : key_compare_t(tag, e))
  IN before \o <<tag>> \o after

\* Index of the first node that does not order before tag (0: none).
threaded_rbtree_lower_bound(chain, tag) ==
  LET hit == {p \in 1..Len(chain) : ~key_compare_t(chain[p], tag)}
  IN IF hit = {} THEN 0 ELSE CHOOSE p \in hit : \A q \in hit : p <= q

\* Index of the last node that does not order after tag (0: none).
threaded_rbtree_reverse_lower_bound(chain, tag) ==
  LET hit == {p \in 1..Len(chain) : ~key_compare_t(tag, chain[p])}
  IN IF hit = {} THEN 0 ELSE CHOOSE p \in hit : \A q \in hit : p >= q

\* Index of a node that orders neither before nor after tag (0: none).
threaded_rbtree_equal_unique(chain, tag) ==
  LET hit == {p \in 1..Len(chain) :
                ~key_compare_t(chain[p], tag) /\ ~key_compare_t(tag, chain[p])}
  IN IF hit = {} THEN 0 ELSE CHOOSE p \in hit : TRUE

\* --------------------------------------------------------- patricia trie
\* A trie is the map from user key to the chain its payload slot points at;
\* <<>> stands for a key the trie does not hold (a chain is never empty: its
\* first node is placed by init_value). The payload slot of key k in trie i
\* is named <<i, k>>.
EmptyTrie == [k \in UserKeys |-> <<>>]
NoWord == <<>>

Words(i) == {k \in UserKeys : trie_vec_[i][k] # <<>>}
num_words(i) == Cardinality(Words(i))
lookup(i, k) == trie_vec_[i][k] # <<>>

\* The first trie whose lookup finds the key (0: none).
FirstHolder(k) ==
  LET holds == {i \in 1..Len(trie_vec_) : lookup(i, k)}
  IN IF holds = {} THEN 0 ELSE CHOOSE i \in holds : \A j \in holds : i <= j

LexMin(S) == IF S = {} THEN NoWord ELSE CHOOSE m \in S : \A x \in S : LexLeq(m, x)
LexMax(S) == IF S = {} THEN NoWord ELSE CHOOSE m \in S : \A x \in S : LexLeq(x, m)

\* ADFA_LexIterator: each operation returns the word the cursor lands on,
\* NoWord when the operation returns false.
seek_begin(i) == LexMin(Words(i))
seek_end(i) == LexMax(Words(i))
seek_lower_bound(i, k) == LexMin({w \in Words(i) : LexLeq(k, w)})
seek_rev_lower_bound(i, k) == LexMax({w \in Words(i) : LexLeq(w, k)})
incr(i, w) == LexMin({x \in Words(i) : LexLess(w, x)})
decr(i, w) == LexMax({x \in Words(i) : LexLess(x, w)})

\* ------------------------------------------------------------ sharding
\* A pointer is a 64-bit value, written as its eight bytes, lowest first.
\* get_valptr: the address of a payload slot; the arenas of the tries are
\* apart and a slot is pointer-aligned within its arena.
SlotOffset(k) == 8 * (Len(k) + 1)
get_valptr(slot) == <<SlotOffset(slot[2]), 0, 0, slot[1], 16, 127, 0, 0>>

\* (val << 3) | (val >> 61)
RotateLeft3(b) ==
  [i \in 1..8 |-> ((b[i] * 8) % 256) + (b[IF i = 1 THEN 8 ELSE i - 1] \div 32)]

\* terark::byte_swap on a 64-bit value
byte_swap(b) == [i \in 1..8 |-> b[9 - i]]

\* b % n, the bytes taken from the highest down
RECURSIVE ModBytes(_, _, _)
ModBytes(b, i, n) ==
  IF i > 8 THEN 0 ELSE (ModBytes(b, i + 1, n) * 256 + b[i]) % n

\* PTrieRep::sharding: the index of the mutex of a pointer among n mutexes
sharding(ptr, n) == ModBytes(byte_swap(RotateLeft3(ptr)), 1, n)

\* --------------------------------------------------------- block sizes
\* A size_t is a 64-bit value, written as its eight bytes, lowest first.
\* Allocator::BlockSize() of the allocators a representation is built on:
\* 64 bytes, 4096 bytes and 2 GB.
BlockSizes == {<<64, 0, 0, 0, 0, 0, 0, 0>>, <<0, 16, 0, 0, 0, 0, 0, 0>>,
               <<0, 0, 0, 128, 0, 0, 0, 0>>}
DefaultBlockSize == <<0, 16, 0, 0, 0, 0, 0, 0>>

\* 2^r for a bit count within a byte
Pow2(r) == CASE r = 0 -> 1 [] r = 1 -> 2 [] r = 2 -> 4 [] r = 3 -> 8 [] r = 4 -> 16
             [] r = 5 -> 32 [] r = 6 -> 64 [] r = 7 -> 128 [] r = 8 -> 256

\* Byte j of b, zero below the lowest byte.
ByteAt(b, j) == IF j >= 1 THEN b[j] ELSE 0

\* b << n on a 64-bit value, for n < 64: whole bytes move up by n \div 8, the
\* bits by n % 8, and what is shifted out at the top is lost.
ShiftLeft(b, n) ==
  [j \in 1..8 |->
     ((ByteAt(b, j - (n \div 8)) * Pow2(n % 8)) % 256)
     + (ByteAt(b, j - (n \div 8) - 1) \div Pow2(8 - (n % 8)))]

\* A trie that is given the block size itself, whatever the vector's size.
NewTrieBlockSize_unshifted(base, size) == base

\* allocator_->BlockSize() << trie_vec_.size(), the size before the append
NewTrieBlockSize(base, size) == ShiftLeft(base, size)

\* The block sizes once the vector has grown to n tries.
RECURSIVE GrowBlocks(_, _, _)
GrowBlocks(bs, base, n) ==
  IF Len(bs) >= n THEN bs
  ELSE GrowBlocks(Append(bs, NewTrieBlockSize(base, Len(bs))), base, n)

\* ------------------------------------------------------------- history
NoRet == [op |-> "none", key |-> <<>>, tag |-> 0, stop |-> 0, out |-> <<>>, res |-> FALSE]
\* A thread that is in no call.
Idle == [at |-> "idle", op |-> "none", i |-> 0, key |-> <<>>, tag |-> 0,
         refuse |-> {}, slot |-> <<>>]
NoScan == [fresh |-> TRUE, start |-> "none", dir |-> 0, key |-> <<>>, tag |-> 0,
           base |-> {}, out |-> <<>>]

\* ----------------------------------------------------------------- Init
\* PTrieRep::PTrieRep on an allocator of the given block size: one empty
\* trie of that block size, not sealed, no entries.
Construct(base) ==
  /\ trie_vec_ = <<EmptyTrie>>
  /\ allocator_ = base
  /\ block_size = <<base>>
  /\ immutable_ = FALSE
  /\ num_entries_ = 0
  /\ root = {}
  /\ it_state = "none"
  /\ multi = FALSE
  /\ Lock = "MutexLock"
  /\ heap_array_ = <<>>
  /\ heap_ = <<>>
  /\ heap_size_ = 0
  /\ direction_ = 0
  /\ where_ = nil_sentinel
  /\ buffer_ = [key |-> <<>>, tag |-> 0]
  /\ alive = {}
  /\ mutex_ = [m \in 0..(ShardingCount - 1) |-> "free"]
  /\ pc = [t \in Threads |-> Idle]
  /\ inserted = {}
  /\ locks = <<>>
  /\ ret = NoRet
  /\ scan = NoScan

Init == Construct(DefaultBlockSize)
\* The representation built on any of the allocators.
InitAnyAllocator == \E base \in BlockSizes : Construct(base)

\* --------------------------------------------------------------- Insert
\* A payload slot holds the pointer to its chain header; root is the set of
\* <<slot, header>> pairs.

\* AllocateAligned(sizeof(root_t)): memory that was not handed out before. A
\* header is named after the slot it is allocated for and the number of
\* headers allocated for that slot earlier.
new_root(rt, slot) == <<slot, Cardinality({p \in rt : p[2][1] = slot})>>

\* An init_value that reuses the header allocated first instead of a new one.
init_value_shared(rt, slot) ==
  rt \cup {<<slot, IF rt = {} THEN new_root(rt, slot) ELSE (CHOOSE p \in rt : TRUE)[2]>>}

\* Token::init_value: allocate a header and store its address in the slot.
init_value(rt, slot) == rt \cup {<<slot, new_root(rt, slot)>>}

\* The loop with the arena test ahead of the test for an existing key: a
\* full trie is passed over even when it holds the key.
RECURSIVE InsertLoop_full_first(_, _, _, _, _)
InsertLoop_full_first(tv, i, key, tag, refuse) ==
  IF i \in refuse
  THEN IF i = Len(tv)
       THEN InsertLoop_full_first(Append(tv, EmptyTrie), i + 1, key, tag, refuse)
       ELSE InsertLoop_full_first(tv, i + 1, key, tag, refuse)
  ELSE IF tv[i][key] # <<>>
  THEN [tv |-> [tv EXCEPT ![i][key] = threaded_rbtree_insert(@, tag)],
        locks |-> <<<<i, key>>>>, init |-> <<>>]
  ELSE [tv |-> [tv EXCEPT ![i][key] = threaded_rbtree_insert(<<>>, tag)],
        locks |-> <<>>, init |-> <<i, key>>]

\* The loop of Insert from trie i on. refuse is the set of tries whose arena
\* refuses this key in this call (insert returns true with a null value);
\* whether an arena has room for a key is the trie library's business, so any
\* trie may refuse any key it does not hold yet. A trie that holds the key
\* reports it as existing without allocating. init is the slot init_value
\* wrote, <<>> when the key existed.
RECURSIVE InsertLoop(_, _, _, _, _)
InsertLoop(tv, i, key, tag, refuse) ==
  IF tv[i][key] # <<>>
  THEN \* insert returned false: the key exists, splice under the shard lock
       [tv |-> [tv EXCEPT ![i][key] = threaded_rbtree_insert(@, tag)],
        locks |-> <<<<i, key>>>>, init |-> <<>>]
  ELSE IF i \notin refuse
  THEN \* init_value: a fresh chain holding the node
       [tv |-> [tv EXCEPT ![i][key] = threaded_rbtree_insert(<<>>, tag)],
        locks |-> <<>>, init |-> <<i, key>>]
  ELSE IF i = Len(tv)
  THEN InsertLoop(Append(tv, EmptyTrie), i + 1, key, tag, refuse)
  ELSE InsertLoop(tv, i + 1, key, tag, refuse)

\* The loop ends within MaxTries tries.
InsertEnds(key, refuse) ==
  \E j \in 1..MaxTries :
    \/ j \notin refuse
    \/ j <= Len(trie_vec_) /\ trie_vec_[j][key] # <<>>

\* assert(i < trie_vec_.capacity()) ahead of every append: i is the index of
\* the last trie, so the assertion passes while size() <= capacity().
AppendsAsserted(r) == Len(r.tv) = Len(trie_vec_) \/ Len(r.tv) - 1 <= trie_vec_capacity

Insert(key, tag, refuse) ==
  /\ ~immutable_
  /\ <<key, tag>> \notin inserted
  /\ num_entries_ < MaxEntries
  /\ LET r == InsertLoop(trie_vec_, 1, key, tag, refuse)
     IN /\ AppendsAsserted(r)
        /\ trie_vec_' = r.tv
        /\ block_size' = GrowBlocks(block_size, allocator_, Len(r.tv))
        /\ locks' = r.locks
        /\ root' = IF r.init # <<>> THEN init_value(root, r.init) ELSE root
  /\ num_entries_' = num_entries_ + 1
  /\ inserted' = inserted \cup {<<key, tag>>}
  /\ ret' = NoRet
  /\ scan' = IF it_state = "live" THEN [scan EXCEPT !.fresh = FALSE] ELSE scan
  /\ UNCHANGED <<immutable_, allocator_>>
  /\ UNCHANGED itVars
  /\ UNCHANGED thrVars

\* --------------------------------------------------------- MarkReadOnly
\* A seal that flips the flag instead of setting it.
MarkReadOnly_toggle ==
  /\ immutable_' = ~immutable_
  /\ locks' = <<>>
  /\ ret' = [NoRet EXCEPT !.op = "MarkReadOnly", !.res = immutable_]
  /\ UNCHANGED <<trie_vec_, num_entries_, root, inserted, scan>>
  /\ UNCHANGED memVars
  /\ UNCHANGED itVars
  /\ UNCHANGED thrVars

\* ret records the call and whether the representation was sealed already.
MarkReadOnly ==
  /\ immutable_' = TRUE
  /\ locks' = <<>>
  /\ ret' = [NoRet EXCEPT !.op = "MarkReadOnly", !.res = immutable_]
  /\ UNCHANGED <<trie_vec_, num_entries_, root, inserted, scan>>
  /\ UNCHANGED memVars
  /\ UNCHANGED itVars
  /\ UNCHANGED thrVars

\* ------------------------------------------------------------- Contains
\* The loop of Contains from trie i on: the first trie holding the user key
\* decides.
RECURSIVE ContainsLoop(_, _, _)
ContainsLoop(i, key, tag) ==
  IF i > Len(trie_vec_) THEN [res |-> FALSE, locks |-> <<>>]
  ELSE IF ~lookup(i, key) THEN ContainsLoop(i + 1, key, tag)
  ELSE [res |-> threaded_rbtree_equal_unique(trie_vec_[i][key], tag) # 0,
        locks |-> IF immutable_ THEN <<>> ELSE <<<<i, key>>>>]

Contains(key, tag) ==
  /\ ret = NoRet
  /\ LET r == ContainsLoop(1, key, tag)
     IN /\ ret' = [NoRet EXCEPT !.op = "Contains", !.key = key, !.tag = tag,
                                !.res = r.res]
        /\ locks' = r.locks
  /\ UNCHANGED <<inserted, scan>>
  /\ UNCHANGED repVars
  /\ UNCHANGED itVars
  /\ UNCHANGED thrVars

\* ------------------------------------------------------------------ Get
\* get_impl starting at the newest node instead of lower_bound(tag).
get_impl_all(chain, tag, stop) ==
  LET lim == IF stop = 0 \/ stop > Len(chain) THEN Len(chain) ELSE stop
  IN SubSeq(chain, 1, lim)

\* get_impl: from lower_bound(tag) on, hand each node to the callback until
\* it returns false (on its stop-th invocation) or the chain ends.
get_impl(chain, tag, stop) ==
  LET first == threaded_rbtree_lower_bound(chain, tag)
      rest == IF first = 0 THEN <<>> ELSE SubSeq(chain, first, Len(chain))
      lim == IF stop = 0 \/ stop > Len(rest) THEN Len(rest) ELSE stop
  IN SubSeq(rest, 1, lim)

\* The loop of Get from trie i on: the first trie holding the user key is
\* the only one probed.
RECURSIVE GetLoop(_, _, _, _)
GetLoop(i, key, tag, stop) ==
  IF i > Len(trie_vec_) THEN [out |-> <<>>, locks |-> <<>>]
  ELSE IF ~lookup(i, key) THEN GetLoop(i + 1, key, tag, stop)
  ELSE [out |-> get_impl(trie_vec_[i][key], tag, stop),
        locks |-> IF immutable_ THEN <<>> ELSE <<<<i, key>>>>]

Get(key, tag, stop) ==
  /\ ret = NoRet
  /\ LET r == GetLoop(1, key, tag, stop)
     IN /\ ret' = [NoRet EXCEPT !.op = "Get", !.key = key, !.tag = tag,
                                !.stop = stop, !.out = r.out]
        /\ locks' = r.locks
  /\ UNCHANGED <<inserted, scan>>
  /\ UNCHANGED repVars
  /\ UNCHANGED itVars
  /\ UNCHANGED thrVars

\* The caller of Contains / Get takes the result; its next call starts after.
Return ==
  /\ ret # NoRet
  /\ ret' = NoRet
  /\ locks' = <<>>
  /\ UNCHANGED <<inserted, scan>>
  /\ UNCHANGED repVars
  /\ UNCHANGED itVars
  /\ UNCHANGED thrVars

\* ------------------------------------------------------------- Iterator
\* The iterator's members as one record, so that a method is an operator from
\* record to record(s): items = heap_array_ (item_ when not multi), heap =
\* heap_, n = heap_size_, dir = direction_, where = where_, buf = buffer_,
\* locks = the payload slots whose shard mutex the call has locked so far.
Self == [items |-> heap_array_, heap |-> heap_, n |-> heap_size_,
         dir |-> direction_, where |-> where_, buf |-> buffer_, locks |-> <<>>]

\* Item::Item: a reader token, a lex iterator not yet positioned, and the
\* number of words of the trie at construction.
Item(i) == [trie |-> i, iter |-> NoWord, num_words |-> num_words(i),
            token |-> num_words(i)]

\* Item::Update: refresh the token once the trie has grown by more than
\* num_words_update words (num_words itself is left as it was).
Update(item) ==
  IF num_words(item.trie) - item.num_words > num_words_update
  THEN [item EXCEPT !.token = num_words(item.trie)]
  ELSE item

UpdateFires(item) == num_words(item.trie) - item.num_words > num_words_update

Current(I) == IF multi THEN I.heap[1] ELSE 1

\* CurrentValue: the payload slot of the word the current Item stands on.
CurrentValue(I) == <<I.items[Current(I)].trie, I.items[Current(I)].iter>>
Chain(slot) == trie_vec_[slot[1]][slot[2]]
Node(slot, p) == [trie |-> slot[1], key |-> slot[2], tag |-> Chain(slot)[p]]

get_most_left(slot) == Node(slot, 1)
get_most_right(slot) == Node(slot, Len(Chain(slot)))

PosOf(node) ==
  LET chain == trie_vec_[node.trie][node.key]
  IN CHOOSE p \in 1..Len(chain) : chain[p] = node.tag

threaded_rbtree_move_next(node) ==
  LET p == PosOf(node)
  IN IF p = Len(trie_vec_[node.trie][node.key]) THEN nil_sentinel
     ELSE Node(<<node.trie, node.key>>, p + 1)

threaded_rbtree_move_prev(node) ==
  LET p == PosOf(node)
  IN IF p = 1 THEN nil_sentinel ELSE Node(<<node.trie, node.key>>, p - 1)

\* build_key(Current().iter->word(), where_, &buffer_)
build_key(I) ==
  [I EXCEPT !.buf = [key |-> I.items[Current(I)].iter, tag |-> I.where.tag]]

\* MutexLock _lock(sharding(value, rep_->mutex_)): every method of the
\* iterator names MutexLock, whatever the Lock template parameter is.
LockShard(I, slot) == [I EXCEPT !.locks = Append(@, slot)]

\* l->iter->word() > r->iter->word()
ForwardComp(items, l, r) == LexLess(items[r].iter, items[l].iter)
\* l->iter->word() < r->iter->word()
BackwardComp(items, l, r) == LexLess(items[l].iter, items[r].iter)
HeapComp(items, direction, l, r) ==
  IF direction = 1 THEN ForwardComp(items, l, r) ELSE BackwardComp(items, l, r)

RECURSIVE PermSeqs(_)
PermSeqs(S) ==
  IF S = {} THEN {<<>>}
  ELSE UNION {{<<x>> \o p : p \in PermSeqs(S \ {x})} : x \in S}

\* std::is_heap on the first n elements of h.
IsHeap(items, h, n, direction) ==
  \A c \in 2..n : ~HeapComp(items, direction, h[c \div 2], h[c])

\* std::make_heap / std::push_heap on the first n elements of h: any
\* arrangement of them the standard allows, the rest of h untouched.
make_heap(items, h, n, direction) ==
  {p \o SubSeq(h, n + 1, Len(h)) :
     p \in {q \in PermSeqs({h[j] : j \in 1..n}) : IsHeap(items, q, n, direction)}}

push_heap(items, h, n, direction) == make_heap(items, h, n, direction)

\* std::pop_heap: the top goes to position n, the others form a heap.
pop_heap(items, h, n, direction) ==
  {p \o <<h[1]>> \o SubSeq(h, n + 1, Len(h)) :
     p \in {q \in PermSeqs({h[j] : j \in 2..n}) : IsHeap(items, q, n - 1, direction)}}

\* The callbacks handed to Rebuild, by name.
Callback(cb, i) ==
  CASE cb.kind = "seek_begin" -> seek_begin(i)
    [] cb.kind = "seek_end" -> seek_end(i)
    [] cb.kind = "seek_lower_bound" -> seek_lower_bound(i, cb.key)
    [] cb.kind = "seek_rev_lower_bound" -> seek_rev_lower_bound(i, cb.key)

Swap(h, a, b) == [h EXCEPT ![a] = h[b], ![b] = h[a]]

\* The loop of Rebuild: Items whose trie is empty or whose seek fails are
\* swapped behind heap_size_.
RECURSIVE RebuildLoop(_, _, _, _, _)
RebuildLoop(items, h, i, n, cb) ==
  IF i > n THEN [items |-> items, heap |-> h, n |-> n]
  ELSE LET id == h[i]
           nonempty == num_words(items[id].trie) > 0
           w == IF nonempty THEN Callback(cb, items[id].trie) ELSE items[id].iter
           items1 == [items EXCEPT ![id] = [Update(@) EXCEPT !.iter = w]]
       IN IF nonempty /\ w # NoWord
          THEN RebuildLoop(items1, h, i + 1, n, cb)
          ELSE RebuildLoop(items1, Swap(h, i, n), i, n - 1, cb)

Rebuild(I, direction, cb) ==
  LET r == RebuildLoop(I.items, I.heap, 1, Len(I.heap), cb)
  IN {[I EXCEPT !.dir = direction, !.items = r.items, !.heap = g, !.n = r.n] :
        g \in make_heap(r.items, r.heap, r.n, direction)}

\* UpdateIterator: after a token refresh, seek the current Item back to the
\* user key of buffer_.
UpdateIterator(I) ==
  LET c == Current(I)
  IN IF UpdateFires(I.items[c])
     THEN [I EXCEPT !.items[c] =
             [Update(@) EXCEPT !.iter = seek_lower_bound(@.trie, I.buf.key)]]
     ELSE I

\* The end of ItemNext / ItemPrev: lock the shard of the new current slot and
\* stand on the first / last node of its chain.
LandLeft(I) ==
  [ok |-> TRUE,
   I |-> [LockShard(I, CurrentValue(I)) EXCEPT !.where = get_most_left(CurrentValue(I))]]
LandRight(I) ==
  [ok |-> TRUE,
   I |-> [LockShard(I, CurrentValue(I)) EXCEPT !.where = get_most_right(CurrentValue(I))]]
Fail(I) == [ok |-> FALSE, I |-> I]

\* The pop / step / push part of ItemNext and ItemPrev (multi).
HeapStep(I, direction) ==
  UNION {
    LET last == g[I.n]
        w == IF direction = 1 THEN incr(I.items[last].trie, I.items[last].iter)
             ELSE decr(I.items[last].trie, I.items[last].iter)
        items1 == [I.items EXCEPT ![last].iter = w]
    IN IF w # NoWord
       THEN {[ok |-> TRUE, I |-> [I EXCEPT !.items = items1, !.heap = g2]] :
               g2 \in push_heap(items1, g, I.n, direction)}
       ELSE {[ok |-> I.n - 1 # 0,
              I |-> [I EXCEPT !.items = items1, !.heap = g, !.n = I.n - 1]]}
    : g \in pop_heap(I.items, I.heap, I.n, direction)}

\* ItemNext up to the new current Item: ok when there is one.
ItemNextSeek(I) ==
  IF multi
  THEN LET starts ==
             IF I.dir # 1
             THEN Rebuild(I, 1, [kind |-> "seek_lower_bound", key |-> I.buf.key])
             ELSE {UpdateIterator(I)}
       IN UNION {IF J.n = 0 THEN {Fail(J)} ELSE HeapStep(J, 1) : J \in starts}
  ELSE LET J == UpdateIterator(I)
           w == incr(J.items[1].trie, J.items[1].iter)
           K == [J EXCEPT !.items[1].iter = w]
       IN {IF w = NoWord THEN Fail(K) ELSE [ok |-> TRUE, I |-> K]}

ItemNext(I) == {IF s.ok THEN LandLeft(s.I) ELSE s : s \in ItemNextSeek(I)}

\* ItemPrev up to the new current Item: ok when there is one.
ItemPrevSeek(I) ==
  IF multi
  THEN LET starts ==
             IF I.dir # -1
             THEN Rebuild(I, -1, [kind |-> "seek_rev_lower_bound", key |-> I.buf.key])
             ELSE {UpdateIterator(I)}
       IN UNION {IF J.n = 0 THEN {Fail(J)} ELSE HeapStep(J, -1) : J \in starts}
  ELSE LET J == UpdateIterator(I)
           w == decr(J.items[1].trie, J.items[1].iter)
           K == [J EXCEPT !.items[1].iter = w]
       IN {IF w = NoWord THEN Fail(K) ELSE [ok |-> TRUE, I |-> K]}

ItemPrev(I) == {IF s.ok THEN LandRight(s.I) ELSE s : s \in ItemPrevSeek(I)}

Valid == where_ # nil_sentinel

\* if (where_ == nil_sentinel && !ItemNext()) return; build_key(...)
FinishForward(I) ==
  IF I.where # nil_sentinel THEN {build_key(I)}
  ELSE {IF s.ok THEN build_key(s.I) ELSE s.I : s \in ItemNext(I)}

FinishBackward(I) ==
  IF I.where # nil_sentinel THEN {build_key(I)}
  ELSE {IF s.ok THEN build_key(s.I) ELSE s.I : s \in ItemPrev(I)}

NextOf(I) ==
  FinishForward([LockShard(I, CurrentValue(I)) EXCEPT
                   !.where = threaded_rbtree_move_next(I.where)])

PrevOf(I) ==
  FinishBackward([LockShard(I, CurrentValue(I)) EXCEPT
                    !.where = threaded_rbtree_move_prev(I.where)])

\* The positioning part the four seeks share: Rebuild with the callback
\* (multi) or Update and the seek on item_; an empty result is where_ = nil.
Position(I, direction, cb) ==
  IF multi
  THEN Rebuild(I, direction, cb)
  ELSE LET nonempty == num_words(I.items[1].trie) > 0
           w == IF nonempty THEN Callback(cb, I.items[1].trie) ELSE I.items[1].iter
       IN {[I EXCEPT !.items[1] = [Update(@) EXCEPT !.iter = w]]}

Positioned(J) ==
  IF multi THEN J.n # 0
  ELSE num_words(J.items[1].trie) > 0 /\ J.items[1].iter # NoWord

NotFound(J) == [J EXCEPT !.where = nil_sentinel]

SeekOf(I, key, tag) ==
  UNION {
    IF ~Positioned(J) THEN {NotFound(J)}
    ELSE LET p == threaded_rbtree_lower_bound(Chain(CurrentValue(J)), tag)
             K == [LockShard(J, CurrentValue(J)) EXCEPT
                     !.where = IF p = 0 THEN nil_sentinel
                               ELSE Node(CurrentValue(J), p)]
         IN FinishForward(K)
    : J \in Position(I, 1, [kind |-> "seek_lower_bound", key |-> key])}

SeekForPrevOf(I, key, tag) ==
  UNION {
    IF ~Positioned(J) THEN {NotFound(J)}
    ELSE LET p == threaded_rbtree_reverse_lower_bound(Chain(CurrentValue(J)), tag)
             K == [LockShard(J, CurrentValue(J)) EXCEPT
                     !.where = IF p = 0 THEN nil_sentinel
                               ELSE Node(CurrentValue(J), p)]
         IN FinishBackward(K)
    : J \in Position(I, -1, [kind |-> "seek_rev_lower_bound", key |-> key])}

SeekToFirstOf(I) ==
  {IF ~Positioned(J) THEN NotFound(J)
   ELSE build_key([LockShard(J, CurrentValue(J)) EXCEPT
                     !.where = get_most_left(CurrentValue(J))])
   : J \in Position(I, 1, [kind |-> "seek_begin", key |-> NoWord])}

SeekToLastOf(I) ==
  {IF ~Positioned(J) THEN NotFound(J)
   ELSE build_key([LockShard(J, CurrentValue(J)) EXCEPT
                     !.where = get_most_right(CurrentValue(J))])
   : J \in Position(I, -1, [kind |-> "seek_end", key |-> NoWord])}

\* The members after a method has run.
Becomes(J) ==
  /\ heap_array_' = J.items
  /\ heap_' = J.heap
  /\ heap_size_' = J.n
  /\ direction_' = J.dir
  /\ where_' = J.where
  /\ buffer_' = J.buf
  /\ locks' = J.locks
  /\ UNCHANGED <<it_state, multi, Lock, alive>>

Entry(J) == <<J.buf.key, J.buf.tag>>
Emit(J) == IF J.where # nil_sentinel THEN <<Entry(J)>> ELSE <<>>

\* A seek starts a scan; Next / Prev continue it while they keep its direction.
Started(J, start, key, tag) ==
  scan' = [fresh |-> scan.fresh, start |-> start, dir |-> 0, key |-> key, tag |-> tag,
           base |-> inserted, out |-> Emit(J)]

\* A step against the direction of the step before it is a turn: what is kept
\* is the record the iterator stood on before that step and the one it stands
\* on now. A step after a turn starts afresh.
Stepped(J, direction) ==
  scan' = IF scan.start \notin {"none", "turn"} /\ scan.dir \in {0, direction}
          THEN [scan EXCEPT !.dir = direction, !.out = @ \o Emit(J)]
          ELSE IF scan.start \notin {"none", "turn"} /\ Len(scan.out) >= 2
          THEN [NoScan EXCEPT !.fresh = scan.fresh, !.start = "turn", !.dir = direction,
                              !.out = <<scan.out[Len(scan.out) - 1]>> \o Emit(J)]
          ELSE [NoScan EXCEPT !.fresh = scan.fresh]

\* GetIterator, Iterator::Iterator
GetIterator ==
  /\ it_state = "none"
  /\ it_state' = "live"
  /\ Lock' = IF immutable_ THEN "DummyLock" ELSE "MutexLock"
  /\ multi' = (Len(trie_vec_) # 1)
  /\ heap_array_' = IF Len(trie_vec_) # 1 THEN [i \in 1..Len(trie_vec_) |-> Item(i)]
                    ELSE <<Item(1)>>
  /\ heap_' = IF Len(trie_vec_) # 1 THEN [i \in 1..Len(trie_vec_) |-> i] ELSE <<>>
  /\ heap_size_' = IF Len(trie_vec_) # 1 THEN Len(trie_vec_) ELSE 0
  /\ alive' = IF Len(trie_vec_) # 1 THEN 1..Len(trie_vec_) ELSE {1}
  /\ where_' = nil_sentinel
  /\ direction_' = 0
  /\ buffer_' = [key |-> <<>>, tag |-> 0]
  /\ locks' = <<>>
  /\ scan' = NoScan
  /\ ret' = NoRet
  /\ UNCHANGED inserted
  /\ UNCHANGED repVars
  /\ UNCHANGED thrVars

\* ~Iterator calls ~Item on heap_array_[0 .. heap_size_ - 1] (multi) or on
\* item_.
Destroyed == IF multi THEN 1..heap_size_ ELSE {1}

\* Iterator::~Iterator
DestroyIterator ==
  /\ it_state = "live"
  /\ it_state' = "none"
  /\ alive' = alive \ Destroyed
  /\ multi' = FALSE
  /\ Lock' = "MutexLock"
  /\ heap_array_' = <<>>
  /\ heap_' = <<>>
  /\ heap_size_' = 0
  /\ where_' = nil_sentinel
  /\ direction_' = 0
  /\ buffer_' = [key |-> <<>>, tag |-> 0]
  /\ locks' = <<>>
  /\ scan' = NoScan
  /\ ret' = NoRet
  /\ UNCHANGED inserted
  /\ UNCHANGED repVars
  /\ UNCHANGED thrVars

SeekToFirst ==
  /\ it_state = "live"
  /\ \E J \in SeekToFirstOf(Self) : Becomes(J) /\ Started(J, "first", <<>>, 0)
  /\ ret' = NoRet
  /\ UNCHANGED inserted
  /\ UNCHANGED repVars
  /\ UNCHANGED thrVars

SeekToLast ==
  /\ it_state = "live"
  /\ \E J \in SeekToLastOf(Self) : Becomes(J) /\ Started(J, "last", <<>>, 0)
  /\ ret' = NoRet
  /\ UNCHANGED inserted
  /\ UNCHANGED repVars
  /\ UNCHANGED thrVars

Seek(key, tag) ==
  /\ it_state = "live"
  /\ \E J \in SeekOf(Self, key, tag) : Becomes(J) /\ Started(J, "seek", key, tag)
  /\ ret' = NoRet
  /\ UNCHANGED inserted
  /\ UNCHANGED repVars
  /\ UNCHANGED thrVars

SeekForPrev(key, tag) ==
  /\ it_state = "live"
  /\ \E J \in SeekForPrevOf(Self, key, tag) :
       Becomes(J) /\ Started(J, "seekprev", key, tag)
  /\ ret' = NoRet
  /\ UNCHANGED inserted
  /\ UNCHANGED repVars
  /\ UNCHANGED thrVars

\* REQUIRES: Valid()
Next ==
  /\ it_state = "live"
  /\ Valid
  /\ \E J \in NextOf(Self) : Becomes(J) /\ Stepped(J, 1)
  /\ ret' = NoRet
  /\ UNCHANGED inserted
  /\ UNCHANGED repVars
  /\ UNCHANGED thrVars

\* REQUIRES: Valid()
Prev ==
  /\ it_state = "live"
  /\ Valid
  /\ \E J \in PrevOf(Self) : Becomes(J) /\ Stepped(J, -1)
  /\ ret' = NoRet
  /\ UNCHANGED inserted
  /\ UNCHANGED repVars
  /\ UNCHANGED thrVars

\* ------------------------------------------------------------- threads
\* The same calls, one step per trie probed, per mutex taken and per chain
\* read or written, for a writer and two readers that run together.
Writer == "writer"
Reader == "reader"
Iter == "iterator"

\* port::Mutex::Lock / Unlock by thread t on the mutex of a payload slot.
MutexOf(slot) == sharding(get_valptr(slot), ShardingCount)
MutexLock(t, slot) ==
  /\ mutex_[MutexOf(slot)] = "free"
  /\ mutex_' = [mutex_ EXCEPT ![MutexOf(slot)] = t]
MutexUnlock(t, slot) ==
  mutex_' = IF mutex_[MutexOf(slot)] = t
            THEN [mutex_ EXCEPT ![MutexOf(slot)] = "free"] ELSE mutex_

Goto(t, r) == pc' = [pc EXCEPT ![t] = r]

\* Insert, up to the loop: the node is built from the entry.
InsertCall(key, tag, refuse) ==
  /\ pc[Writer].at = "idle"
  /\ ~immutable_
  /\ <<key, tag>> \notin inserted
  /\ num_entries_ < MaxEntries
  /\ inserted' = inserted \cup {<<key, tag>>}
  /\ Goto(Writer, [Idle EXCEPT !.at = "loop", !.op = "Insert", !.i = 1, !.key = key,
                               !.tag = tag, !.refuse = refuse])
  /\ UNCHANGED <<mutex_, locks, ret, scan>>
  /\ UNCHANGED repVars
  /\ UNCHANGED itVars

\* A loop that tries the last trie again instead of appending one.
InsertTry_no_append ==
  LET c == pc[Writer]
  IN /\ c.at = "loop"
     /\ IF trie_vec_[c.i][c.key] # <<>>
        THEN /\ Goto(Writer, [c EXCEPT !.at = "lock", !.slot = <<c.i, c.key>>])
             /\ UNCHANGED <<trie_vec_, root, num_entries_>>
        ELSE IF c.i \notin c.refuse
        THEN /\ trie_vec_' = [trie_vec_ EXCEPT ![c.i][c.key] = threaded_rbtree_insert(<<>>, c.tag)]
             /\ root' = init_value(root, <<c.i, c.key>>)
             /\ num_entries_' = num_entries_ + 1
             /\ Goto(Writer, Idle)
        ELSE /\ Goto(Writer, [c EXCEPT !.i = IF c.i = Len(trie_vec_) THEN c.i ELSE c.i + 1])
             /\ UNCHANGED <<trie_vec_, root, num_entries_>>
     /\ UNCHANGED <<immutable_, mutex_, inserted, locks, ret, scan>>
     /\ UNCHANGED memVars
     /\ UNCHANGED itVars

\* One turn of the loop of Insert: trie->insert on trie i and what follows.
InsertTry ==
  LET c == pc[Writer]
  IN /\ c.at = "loop"
     /\ IF trie_vec_[c.i][c.key] # <<>>
        THEN \* the key exists: on to the lock of its slot
             /\ Goto(Writer, [c EXCEPT !.at = "lock", !.slot = <<c.i, c.key>>])
             /\ UNCHANGED <<trie_vec_, root, num_entries_, block_size>>
        ELSE IF c.i \notin c.refuse
        THEN \* init_value made the chain; break, free(handle), ++num_entries_
             /\ trie_vec_' = [trie_vec_ EXCEPT ![c.i][c.key] = threaded_rbtree_insert(<<>>, c.tag)]
             /\ root' = init_value(root, <<c.i, c.key>>)
             /\ num_entries_' = num_entries_ + 1
             /\ Goto(Writer, Idle)
             /\ UNCHANGED block_size
        ELSE \* arena_full: append when i is the last trie, next turn
             /\ c.i = Len(trie_vec_) => c.i - 1 < trie_vec_capacity
             /\ trie_vec_' = IF c.i = Len(trie_vec_) THEN Append(trie_vec_, EmptyTrie)
                             ELSE trie_vec_
             /\ block_size' = IF c.i = Len(trie_vec_)
                               THEN GrowBlocks(block_size, allocator_, c.i + 1)
                               ELSE block_size
             /\ Goto(Writer, [c EXCEPT !.i = c.i + 1])
             /\ UNCHANGED <<root, num_entries_>>
     /\ UNCHANGED <<immutable_, allocator_, mutex_, inserted, locks, ret, scan>>
     /\ UNCHANGED itVars

\* MutexLock _lock(sharding(token.value(), mutex_))
InsertLock ==
  /\ pc[Writer].at = "lock"
  /\ MutexLock(Writer, pc[Writer].slot)
  /\ Goto(Writer, [pc[Writer] EXCEPT !.at = "cs"])
  /\ UNCHANGED <<inserted, locks, ret, scan>>
  /\ UNCHANGED repVars
  /\ UNCHANGED itVars

\* The splice under the lock, the unlock at the end of the block, the return.
InsertSplice ==
  LET c == pc[Writer]
  IN /\ c.at = "cs"
     /\ trie_vec_' = [trie_vec_ EXCEPT ![c.slot[1]][c.slot[2]] = threaded_rbtree_insert(@, c.tag)]
     /\ MutexUnlock(Writer, c.slot)
     /\ num_entries_' = num_entries_ + 1
     /\ Goto(Writer, Idle)
     /\ UNCHANGED <<immutable_, root, inserted, locks, ret, scan>>
     /\ UNCHANGED memVars
     /\ UNCHANGED itVars

\* Contains and Get never taking the lock.
LookupLocks_never == FALSE

\* if (immutable_) ... else { MutexLock _lock(...); ... }
LookupLocks == ~immutable_

\* Contains / Get up to the chain: the loop over the tries ends at the first
\* trie whose lookup finds the key; then the test of immutable_.
LookupCall(key) ==
  /\ pc[Reader].at = "idle"
  /\ FirstHolder(key) # 0
  /\ Goto(Reader, [Idle EXCEPT !.at = IF LookupLocks THEN "lock" ELSE "cs",
                               !.op = "Lookup", !.slot = <<FirstHolder(key), key>>])
  /\ UNCHANGED <<mutex_, inserted, locks, ret, scan>>
  /\ UNCHANGED repVars
  /\ UNCHANGED itVars

LookupLock ==
  /\ pc[Reader].at = "lock"
  /\ MutexLock(Reader, pc[Reader].slot)
  /\ Goto(Reader, [pc[Reader] EXCEPT !.at = "cs"])
  /\ UNCHANGED <<inserted, locks, ret, scan>>
  /\ UNCHANGED repVars
  /\ UNCHANGED itVars

\* contains_impl / get_impl on the chain, the unlock, the return.
LookupImpl ==
  /\ pc[Reader].at = "cs"
  /\ MutexUnlock(Reader, pc[Reader].slot)
  /\ Goto(Reader, Idle)
  /\ UNCHANGED <<inserted, locks, ret, scan>>
  /\ UNCHANGED repVars
  /\ UNCHANGED itVars

\* The members after a part of a method has run.
Members(J) ==
  /\ heap_array_' = J.items
  /\ heap_' = J.heap
  /\ heap_size_' = J.n
  /\ direction_' = J.dir
  /\ where_' = J.where
  /\ buffer_' = J.buf
  /\ UNCHANGED <<it_state, multi, Lock, alive>>

IterOps == {"SeekToFirst", "SeekToLast", "Seek", "SeekForPrev", "Next", "Prev"}
Forward(op) == op \in {"SeekToFirst", "Seek", "Next"}

SeekCallback(op, key) ==
  CASE op = "SeekToFirst" -> [kind |-> "seek_begin", key |-> NoWord]
    [] op = "SeekToLast" -> [kind |-> "seek_end", key |-> NoWord]
    [] op = "Seek" -> [kind |-> "seek_lower_bound", key |-> key]
    [] op = "SeekForPrev" -> [kind |-> "seek_rev_lower_bound", key |-> key]

\* A seek up to its lock: the Items are positioned; with none left the call
\* returns invalid.
IterSeekCall(op, key, tag) ==
  /\ pc[Iter].at = "idle"
  /\ it_state = "live"
  /\ \E J \in Position(Self, IF Forward(op) THEN 1 ELSE -1, SeekCallback(op, key)) :
       IF Positioned(J)
       THEN /\ Members(J)
            /\ Goto(Iter, [Idle EXCEPT !.at = "lock", !.op = op, !.tag = tag,
                                       !.slot = CurrentValue(J)])
       ELSE /\ Members(NotFound(J))
            /\ UNCHANGED pc
  /\ UNCHANGED <<mutex_, inserted, locks, ret, scan>>
  /\ UNCHANGED repVars

\* Next / Prev up to the lock. REQUIRES: Valid()
IterStepCall(op) ==
  /\ pc[Iter].at = "idle"
  /\ it_state = "live"
  /\ Valid
  /\ Goto(Iter, [Idle EXCEPT !.at = "lock", !.op = op, !.slot = CurrentValue(Self)])
  /\ UNCHANGED <<mutex_, inserted, locks, ret, scan>>
  /\ UNCHANGED repVars
  /\ UNCHANGED itVars

\* MutexLock _lock(sharding(CurrentValue(), rep_->mutex_)), in a method or in
\* ItemNext / ItemPrev.
IterLock ==
  /\ pc[Iter].at \in {"lock", "lock2"}
  /\ MutexLock(Iter, pc[Iter].slot)
  /\ Goto(Iter, [pc[Iter] EXCEPT !.at = IF @ = "lock" THEN "cs" ELSE "cs2"])
  /\ UNCHANGED <<inserted, locks, ret, scan>>
  /\ UNCHANGED repVars
  /\ UNCHANGED itVars

\* What the method reads from the chain under its lock.
ChainRead(op, tag) ==
  LET slot == CurrentValue(Self)
      at(p) == IF p = 0 THEN nil_sentinel ELSE Node(slot, p)
  IN CASE op = "SeekToFirst" -> get_most_left(slot)
       [] op = "SeekToLast" -> get_most_right(slot)
       [] op = "Seek" -> at(threaded_rbtree_lower_bound(Chain(slot), tag))
       [] op = "SeekForPrev" -> at(threaded_rbtree_reverse_lower_bound(Chain(slot), tag))
       [] op = "Next" -> threaded_rbtree_move_next(where_)
       [] op = "Prev" -> threaded_rbtree_move_prev(where_)

\* A method whose lock lives to the end of the method, ItemNext / ItemPrev
\* included.
IterRead_holds ==
  LET c == pc[Iter]
      J == [Self EXCEPT !.where = ChainRead(c.op, c.tag)]
  IN /\ c.at = "cs"
     /\ IF J.where # nil_sentinel
        THEN MutexUnlock(Iter, c.slot) /\ Members(build_key(J)) /\ Goto(Iter, Idle)
        ELSE UNCHANGED mutex_ /\ Members(J) /\ Goto(Iter, [c EXCEPT !.at = "item"])
     /\ UNCHANGED <<inserted, locks, ret, scan>>
     /\ UNCHANGED repVars

\* The locked block of a method and the unlock; with a node found, build_key
\* and the return, else on to ItemNext / ItemPrev.
IterRead ==
  LET c == pc[Iter]
      J == [Self EXCEPT !.where = ChainRead(c.op, c.tag)]
  IN /\ c.at = "cs"
     /\ MutexUnlock(Iter, c.slot)
     /\ IF J.where # nil_sentinel
        THEN Members(build_key(J)) /\ Goto(Iter, Idle)
        ELSE Members(J) /\ Goto(Iter, [c EXCEPT !.at = "item"])
     /\ UNCHANGED <<inserted, locks, ret, scan>>
     /\ UNCHANGED repVars

\* ItemNext / ItemPrev up to the lock: the heap moves to the next word; with
\* no word left the call returns invalid.
IterItem ==
  LET c == pc[Iter]
  IN /\ c.at = "item"
     /\ \E s \in IF Forward(c.op) THEN ItemNextSeek(Self) ELSE ItemPrevSeek(Self) :
          /\ Members(s.I)
          /\ IF s.ok THEN Goto(Iter, [c EXCEPT !.at = "lock2", !.slot = CurrentValue(s.I)])
             ELSE Goto(Iter, Idle)
     /\ UNCHANGED <<mutex_, inserted, locks, ret, scan>>
     /\ UNCHANGED repVars

\* The locked block of ItemNext / ItemPrev, the unlock, build_key, the return.
IterLand ==
  LET c == pc[Iter]
      slot == CurrentValue(Self)
      J == [Self EXCEPT !.where = IF Forward(c.op) THEN get_most_left(slot)
                                  ELSE get_most_right(slot)]
  IN /\ c.at = "cs2"
     /\ MutexUnlock(Iter, c.slot)
     /\ Members(build_key(J))
     /\ Goto(Iter, Idle)
     /\ UNCHANGED <<inserted, locks, ret, scan>>
     /\ UNCHANGED repVars

\* ------------------------------------------------------- specifications
DoInsert == \E key \in UserKeys, tag \in Tags, refuse \in SUBSET (1..MaxTries) :
              InsertEnds(key, refuse) /\ Insert(key, tag, refuse)
\* The writer has finished before a reader takes an iterator.
DoInsertBefore == it_state = "none" /\ DoInsert
DoContains == \E key \in UserKeys, tag \in QueryTags : Contains(key, tag)
DoGet == \E key \in UserKeys, tag \in QueryTags, stop \in CbStops : Get(key, tag, stop)
DoSeek == \E key \in SeekKeys, tag \in QueryTags : Seek(key, tag)
DoSeekForPrev == \E key \in SeekKeys, tag \in QueryTags : SeekForPrev(key, tag)

\* Point lookups on a representation that is being filled and then sealed.
NextLookup == DoInsert \/ MarkReadOnly \/ DoContains \/ DoGet \/ Return
SpecLookup == Init /\ [][NextLookup]_vars

\* The reader keeps the direction of the scan it is in.
ScanNext == scan.dir # -1 /\ Next
ScanPrev == scan.dir # 1 /\ Prev

\* Full scans, forward and backward, of an iterator taken after the inserts.
NextScan == DoInsertBefore \/ GetIterator \/ DestroyIterator
            \/ SeekToFirst \/ SeekToLast \/ ScanNext \/ ScanPrev
SpecScan == Init /\ [][NextScan]_vars

\* Seeks, and the steps that follow them, of an iterator taken after the inserts.
NextSeek == DoInsertBefore \/ GetIterator \/ DestroyIterator
            \/ DoSeek \/ DoSeekForPrev
SpecSeek == Init /\ [][NextSeek]_vars

\* Forward scans of a live iterator with the writer running in between.
NextLive == DoInsert \/ GetIterator \/ DestroyIterator \/ SeekToFirst \/ DoSeek \/ Next
SpecLive == Init /\ [][NextLive]_vars

\* Scans that turn round, of an iterator taken after the inserts.
NextTurn == DoInsertBefore \/ GetIterator \/ DestroyIterator
            \/ SeekToFirst \/ SeekToLast \/ Next \/ Prev
SpecTurn == Init /\ [][NextTurn]_vars

\* Every read of a sealed representation, the iterator taken after the seal.
GetIteratorSealed == immutable_ /\ GetIterator
NextSealed == DoInsert \/ MarkReadOnly \/ GetIteratorSealed \/ DestroyIterator
              \/ SeekToFirst \/ SeekToLast \/ Next \/ Prev
              \/ DoContains \/ DoGet \/ Return
SpecSealed == Init /\ [][NextSealed]_vars

\* Inserts of keys that the first n tries refuse (the tries are full, or the
\* key is larger than their arenas): no trie, the tries there are, all the
\* reserved ones but the last, or all the reserved ones.
GrowSteps == {0, Len(trie_vec_), trie_vec_capacity - 1, trie_vec_capacity}
DoInsertGrow == \E key \in UserKeys, tag \in Tags, n \in GrowSteps :
                  Insert(key, tag, 1..n)
SpecGrow == Init /\ [][DoInsertGrow]_vars
\* The same inserts on a representation built on any of the allocators.
SpecBlocks == InitAnyAllocator /\ [][DoInsertGrow]_vars

\* The writer alone, up to the seal.
NextInsert == DoInsert \/ MarkReadOnly
SpecInsert == Init /\ [][NextInsert]_vars

\* Reads before, across and after the seal, the writer done before the reader.
NextSeal == DoInsertBefore \/ MarkReadOnly \/ GetIterator \/ DestroyIterator
            \/ SeekToFirst \/ ScanNext
SpecSeal == Init /\ [][NextSeal]_vars

\* The writer alone, step by step; a thread that can take a step takes it.
DoInsertCall == \E key \in UserKeys, tag \in Tags, refuse \in SUBSET (1..MaxTries) :
                  InsertEnds(key, refuse) /\ InsertCall(key, tag, refuse)
NextWriter == DoInsertCall \/ InsertTry \/ InsertLock \/ InsertSplice
SpecWriter == Init /\ [][NextWriter]_vars
              /\ WF_vars(InsertTry) /\ WF_vars(InsertLock) /\ WF_vars(InsertSplice)

\* The writer and the two readers together. The seal comes when no Insert is
\* running, and the iterator is made and destroyed between its calls.
Seal == pc[Writer].at = "idle" /\ ~immutable_ /\ MarkReadOnly
IterMake == pc[Iter].at = "idle" /\ GetIterator
IterDrop == pc[Iter].at = "idle" /\ DestroyIterator
DoLookupCall == \E key \in UserKeys : LookupCall(key)
\* The iterator's reader scans forward: SeekToFirst, then Next.
DoIterSeekCall == IterSeekCall("SeekToFirst", NoWord, 0)
DoIterStepCall == IterStepCall("Next")
NextThreads == DoInsertCall \/ InsertTry \/ InsertLock \/ InsertSplice \/ Seal
               \/ DoLookupCall \/ LookupLock \/ LookupImpl
               \/ IterMake \/ IterDrop \/ DoIterSeekCall \/ DoIterStepCall
               \/ IterLock \/ IterRead \/ IterItem \/ IterLand
SpecThreads == Init /\ [][NextThreads]_vars

\* The three threads before the seal under fair scheduling: a thread that
\* can take a step inside a call takes it, and a thread that finds its mutex
\* free again and again gets it. The first trie has no room for the longer
\* key, so each trie comes to hold a key and the iterator merges the two.
DoInsertSplit == \E key \in UserKeys, tag \in Tags :
                   InsertCall(key, tag, IF Len(key) > 1 THEN {1} ELSE {})
NextFair == DoInsertSplit \/ InsertTry \/ InsertLock \/ InsertSplice
            \/ DoLookupCall \/ LookupLock \/ LookupImpl
            \/ IterMake \/ DoIterSeekCall \/ DoIterStepCall
            \/ IterLock \/ IterRead \/ IterItem \/ IterLand
SpecFair == Init /\ [][NextFair]_vars
            /\ WF_vars(InsertTry) /\ WF_vars(InsertSplice) /\ WF_vars(LookupImpl)
            /\ WF_vars(IterRead) /\ WF_vars(IterItem) /\ WF_vars(IterLand)
            /\ SF_vars(InsertLock) /\ SF_vars(LookupLock) /\ SF_vars(IterLock)

NextAll == NextLookup \/ NextScan \/ NextSeek \/ NextLive \/ NextSealed \/ NextSeal \/ NextInsert \/ DoInsertGrow \/ NextThreads \/ NextFair
Spec == Init /\ [][NextAll]_vars

\* ------------------------------------------------------------ properties
\* The order of an ordinary memtable: ascending user key, then descending tag.
RecLess(a, b) == LexLess(a[1], b[1]) \/ (a[1] = b[1] /\ a[2] > b[2])

RECURSIVE SortedSeq(_)
SortedSeq(S) ==
  IF S = {} THEN <<>>
  ELSE LET m == CHOOSE m \in S : \A x \in S : x = m \/ RecLess(m, x)
       IN <<m>> \o SortedSeq(S \ {m})

Reverse(q) == [p \in 1..Len(q) |-> q[Len(q) + 1 - p]]
Range(q) == {q[p] : p \in 1..Len(q)}
IsPrefix(a, b) == Len(a) <= Len(b) /\ \A p \in 1..Len(a) : a[p] = b[p]

\* A forward scan from SeekToFirst, by an iterator taken after the last Insert.
ForwardScan ==
  it_state = "live" /\ scan.start = "first" /\ scan.dir # -1 /\ scan.fresh
\* A backward scan from SeekToLast, by an iterator taken after the last Insert.
BackwardScan ==
  it_state = "live" /\ scan.start = "last" /\ scan.dir # 1 /\ scan.fresh

ScanIs(expected) ==
  /\ IsPrefix(scan.out, expected)
  /\ Valid => scan.out # <<>> /\ scan.out[Len(scan.out)] = <<buffer_.key, buffer_.tag>>
  /\ ~Valid => scan.out = expected

\* C1: with every record in trie 0 (a trie vector of length 1), a scan from
\* SeekToFirst by Next emits the inserted records in ascending user key and
\* descending tag order, each once, and ends when all have been emitted.
C1_SingleTrieForwardScan ==
  (ForwardScan /\ Len(trie_vec_) = 1) => ScanIs(SortedSeq(inserted))

C1_Witness ==
  /\ ForwardScan /\ Len(trie_vec_) = 1 /\ ~Valid
  /\ Len(scan.out) = MaxEntries
  /\ \E k \in UserKeys : Len(trie_vec_[1][k]) >= 2
  /\ \A k \in UserKeys : trie_vec_[1][k] # <<>>

\* C2: whatever the number of tries, a scan from SeekToFirst by Next emits the
\* inserted records in ascending user key and descending tag order, each once.
C2_MultiTrieForwardScan ==
  ForwardScan => ScanIs(SortedSeq(inserted))

\* The target of the last Seek / SeekForPrev, by an iterator taken after the
\* last Insert, no step taken since.
Target == <<scan.key, scan.tag>>
JustSought(start) ==
  it_state = "live" /\ scan.start = start /\ scan.dir = 0 /\ scan.fresh

\* C3: after Seek(u@t) the iterator is valid iff some record is at or after
\* (u, t), and it then stands on the first such record.
C3_SeekLowerBound ==
  JustSought("seek") =>
    LET ge == {r \in inserted : ~RecLess(r, Target)}
    IN /\ Valid <=> ge # {}
       /\ Valid => <<buffer_.key, buffer_.tag>> = SortedSeq(ge)[1]

\* C4: after SeekForPrev(u@t) the iterator is valid iff some record is at or
\* before (u, t), and it then stands on the last such record.
C4_SeekForPrevUpperBound ==
  JustSought("seekprev") =>
    LET le == {r \in inserted : ~RecLess(Target, r)}
    IN /\ Valid <=> le # {}
       /\ Valid => <<buffer_.key, buffer_.tag>> = SortedSeq(le)[Cardinality(le)]

\* The lowest trie that holds the user key (0: none).
FirstTrie(key) ==
  LET holds == {i \in 1..Len(trie_vec_) : trie_vec_[i][key] # <<>>}
  IN IF holds = {} THEN 0 ELSE CHOOSE i \in holds : \A j \in holds : i <= j

\* C5: Get(k@tag, cb) hands cb the revisions of the chain of k in the first
\* trie that holds k whose tag is at most the query tag, newest first, up to
\* and including the one on which cb returns false; nothing when no trie
\* holds k.
C5_GetFirstTrieChain ==
  ret.op = "Get" =>
    LET i == FirstTrie(ret.key)
        elig == IF i = 0 THEN {}
                ELSE {g \in Range(trie_vec_[i][ret.key]) : g <= ret.tag}
        want == IF ret.stop = 0 \/ ret.stop > Cardinality(elig)
                THEN Cardinality(elig) ELSE ret.stop
    IN /\ Len(ret.out) = want
       /\ \A p \in 1..Len(ret.out) :
            /\ ret.out[p] \in elig
            /\ Cardinality({g \in elig : g > ret.out[p]}) = p - 1

C5_Witness ==
  /\ ret.op = "Get" /\ ret.out # <<>>
  /\ FirstTrie(ret.key) = 2
  /\ \E g \in Range(trie_vec_[2][ret.key]) : g > ret.tag

\* C6: with a callback that never returns false, Get(k@tag, cb) delivers
\* every inserted revision of k whose tag is at most the query tag, whichever
\* trie holds it.
C6_GetMergesAllTries ==
  (ret.op = "Get" /\ ret.stop = 0) =>
    Range(ret.out) = {g \in Tags : <<ret.key, g>> \in inserted /\ g <= ret.tag}

\* C7: Contains(k@tag) is true exactly when the record (k, tag) was inserted.
C7_ContainsIffInserted ==
  ret.op = "Contains" => (ret.res <=> <<ret.key, ret.tag>> \in inserted)

\* C8: once sealed, no read locks a shard mutex: not Contains, not Get, and no
\* operation of an iterator taken after the seal.
C8_NoShardLockAfterSeal ==
  (immutable_ /\ (it_state = "live" => Lock = "DummyLock")) => locks = <<>>

\* C9: on a live representation with Inserts in between, a forward scan that
\* has ended has emitted, in ascending order, every record that was inserted
\* before the iterator was positioned and sorts at or after its position.
C9_LiveScanMissesNothing ==
  (it_state = "live" /\ scan.start \in {"first", "seek"} /\ scan.dir # -1 /\ ~Valid) =>
    LET due == IF scan.start = "first" THEN scan.base
               ELSE IF scan.out = <<>> THEN {}
               ELSE {r \in scan.base : ~RecLess(r, scan.out[1])}
    IN /\ due \subseteq Range(scan.out)
       /\ \A p \in 1..(Len(scan.out) - 1) : RecLess(scan.out[p], scan.out[p + 1])

\* C10: a scan from SeekToLast by Prev emits the inserted records in the
\* reverse of the forward order, each once, whatever the number of tries.
C10_BackwardScanIsReverse ==
  BackwardScan => ScanIs(Reverse(SortedSeq(inserted)))

\* C11: right after SeekToFirst or SeekToLast the iterator is valid exactly
\* when some record had been inserted by the time of the call, whenever the
\* iterator was taken.
C11_SeekEndsValidIffNonEmpty ==
  (it_state = "live" /\ scan.start \in {"first", "last"} /\ scan.dir = 0) =>
    (Valid <=> scan.base # {})

\* Every sequence a scan from SeekToFirst by Next can emit from iterator I on.
RECURSIVE ScanFrom(_, _)
ScanFrom(I, out) ==
  IF I.where = nil_sentinel THEN {out}
  ELSE UNION {ScanFrom(J, out \o Emit(J)) : J \in NextOf(I)}

FullForwardScan ==
  IF it_state = "live"
  THEN UNION {ScanFrom(J, Emit(J)) : J \in SeekToFirstOf(Self)}
  ELSE {}

\* What every read would return in this state.
ReadResults ==
  [contains |-> [k \in UserKeys, t \in QueryTags |-> ContainsLoop(1, k, t).res],
   get |-> [k \in UserKeys, t \in QueryTags, s \in CbStops |-> GetLoop(1, k, t, s).out],
   scan |-> FullForwardScan]

\* C12: MarkReadOnly leaves what Contains, Get and a full forward iteration
\* return as it was, and a MarkReadOnly on a sealed representation changes no
\* state of the representation or of its iterator.
C12_SealIdempotent ==
  [][MarkReadOnly =>
       /\ ReadResults' = ReadResults
       /\ UNCHANGED <<trie_vec_, num_entries_, root, inserted>>
       /\ UNCHANGED itVars
       /\ immutable_'
       /\ immutable_ => UNCHANGED immutable_]_vars

C12_Witness ==
  /\ ret.op = "MarkReadOnly" /\ ret.res
  /\ it_state = "live" /\ Lock = "MutexLock" /\ Valid
  /\ Len(trie_vec_) = 2 /\ num_entries_ = MaxEntries

\* Trie i of tv holds user key k.
Holds(tv, i, k) == i <= Len(tv) /\ tv[i][k] # <<>>

\* The lowest trie that holds the key or, not refusing it, accepts it; tries
\* past the end of the vector are the ones an append would create.
LoopExit(key, refuse) ==
  CHOOSE j \in 1..(MaxTries + 1) :
    /\ Holds(trie_vec_, j, key) \/ j \notin refuse
    /\ \A i \in 1..(j - 1) : ~Holds(trie_vec_, i, key) /\ i \in refuse

Placed(key, tag, refuse) ==
  LET j == LoopExit(key, refuse)
      n == Len(trie_vec_)
  IN /\ Len(trie_vec_') = IF j > n THEN j ELSE n
     /\ Len(trie_vec_') > n => \A i \in 1..n : i \in refuse /\ trie_vec_[i][key] = <<>>
     /\ \A i \in 1..Len(trie_vec_'), k \in UserKeys :
          LET old == IF i <= n THEN trie_vec_[i][k] ELSE <<>>
              new == trie_vec_'[i][k]
          IN IF i = j /\ k = key
             THEN Len(new) = Len(old) + 1 /\ Range(new) = Range(old) \cup {tag}
             ELSE new = old
     /\ locks' = IF Holds(trie_vec_, j, key) THEN <<<<j, key>>>> ELSE <<>>
     /\ ~Holds(trie_vec_, j, key) => trie_vec_'[j][key] = <<tag>>

\* C14: an Insert puts its record into the lowest trie that holds the user
\* key already (spliced under the shard lock of the slot) or accepts it as a
\* new key (a fresh one-node chain); a trie is appended only when every
\* existing trie refused the key in this call; one node is added and nothing
\* else changes; the trie vector never gets shorter.
C14_InsertPlacement ==
  [][\A key \in UserKeys, tag \in Tags, refuse \in SUBSET (1..MaxTries) :
       Insert(key, tag, refuse) => Placed(key, tag, refuse)]_vars

C14_Witness ==
  /\ ret = NoRet /\ Len(trie_vec_) = 2
  /\ \E k \in UserKeys :
       /\ locks = <<<<2, k>>>>
       /\ trie_vec_[1][k] = <<>>
       /\ Words(1) # {}

\* C15: a user key held by trie i never gets a slot in a trie after i.
C15_NoSlotInLaterTrie ==
  [][\A k \in UserKeys, i \in 1..Len(trie_vec_) :
       trie_vec_[i][k] # <<>> =>
         \A j \in (i + 1)..Len(trie_vec_') :
           trie_vec_'[j][k] # <<>> => Holds(trie_vec_, j, k)]_vars

\* The last call was an Insert of a new revision of a key of trie 0, made
\* when trie 1 existed and held another key.
C15_Witness ==
  /\ ret = NoRet /\ Len(trie_vec_) = 2
  /\ \E k \in UserKeys :
       /\ locks = <<<<1, k>>>>
       /\ trie_vec_[2][k] = <<>>
       /\ Words(2) # {}

\* The tags met walking from node by move_next.
RECURSIVE WalkFrom(_)
WalkFrom(node) ==
  IF node = nil_sentinel THEN <<>>
  ELSE <<node.tag>> \o WalkFrom(threaded_rbtree_move_next(node))

Walk(slot) == WalkFrom(get_most_left(slot))

Slots == {<<i, k>> : i \in 1..Len(trie_vec_), k \in UserKeys}
Written == {sl \in Slots : Chain(sl) # <<>>}

\* C17: the walk of every chain from most_left by move_next meets strictly
\* descending tags, and the walks of the chains of a user key meet every
\* revision inserted for it, each once.
C17_ChainDescendingComplete ==
  /\ \A sl \in Written :
       \A p \in 1..(Len(Walk(sl)) - 1) : Walk(sl)[p] > Walk(sl)[p + 1]
  /\ \A k \in UserKeys :
       /\ UNION {Range(Walk(sl)) : sl \in {w \in Written : w[2] = k}}
            = {t \in Tags : <<k, t>> \in inserted}
       /\ \A sl, sm \in {w \in Written : w[2] = k} :
            sl # sm => Range(Walk(sl)) \cap Range(Walk(sm)) = {}

C17_Witness ==
  /\ Len(trie_vec_) = 2
  /\ \E sl \in Written : Len(Walk(sl)) = MaxTag
  /\ Cardinality(Written) >= 2

\* C19: a payload slot is written once, by init_value, when its trie takes
\* the user key as a new key; the header it points at never changes, later
\* Inserts of the key only grow the chain, and no two slots share a header.
C19_SlotWrittenOnce ==
  [][/\ root \subseteq root'
     /\ \A p, q \in root' : (p[1] = q[1] \/ p[2] = q[2]) => p = q
     /\ \A p \in root' \ root :
          /\ ~Holds(trie_vec_, p[1][1], p[1][2])
          /\ Len(trie_vec_'[p[1][1]][p[1][2]]) = 1
     /\ \A i \in 1..Len(trie_vec_'), k \in UserKeys :
          trie_vec_'[i][k] # <<>> <=> \E p \in root' : p[1] = <<i, k>>]_vars

C19_Witness ==
  /\ Cardinality(root) >= 2
  /\ \E p \in root : Len(Chain(p[1])) >= 2

\* C16: no append finds the trie vector at its reserved capacity: after an
\* Insert that appended, the vector is no longer than the capacity.
C16_AppendBelowCapacity ==
  [][Len(trie_vec_') > Len(trie_vec_) => Len(trie_vec_') <= trie_vec_capacity]_vars

\* C20: once an iterator is destroyed, every Item its constructor built has
\* been destroyed, whatever calls were made on it in between.
C20_ItemsDestroyed ==
  it_state = "none" => alive = {}

\* The payload slots there can be, and the threads inside a locked block.
AllSlots == (1..MaxTries) \X UserKeys
Splicing(slot) == pc[Writer].at = "cs" /\ pc[Writer].slot = slot
Traversing(t, slot) == pc[t].at \in {"cs", "cs2"} /\ pc[t].slot = slot

\* C13: before the seal a reader never traverses a published chain while the
\* writer splices into it: the writer's splice, each Contains / Get and each
\* iterator read of a chain happens with the mutex of the chain's payload slot
\* held by that thread, the iterator reads the chain of the slot it locked,
\* and sharding maps every slot to one index in 0..N-1.
C13_ChainUnderShardLock ==
  /\ \A slot \in AllSlots : MutexOf(slot) \in 0..(ShardingCount - 1)
  /\ pc[Writer].at = "cs" =>
       /\ mutex_[MutexOf(pc[Writer].slot)] = Writer
       /\ Chain(pc[Writer].slot) # <<>>
  /\ ~immutable_ =>
       /\ \A t \in {Reader, Iter} :
            pc[t].at \in {"cs", "cs2"} => mutex_[MutexOf(pc[t].slot)] = t
       /\ pc[Iter].at \in {"cs", "cs2"} => pc[Iter].slot = CurrentValue(Self)
       /\ \A slot \in AllSlots :
            Splicing(slot) => ~Traversing(Reader, slot) /\ ~Traversing(Iter, slot)

C13_Witness ==
  /\ ~immutable_
  /\ pc[Writer].at = "lock"
  /\ Traversing(Reader, pc[Writer].slot)
  /\ pc[Iter].at \in {"lock", "lock2"} /\ pc[Iter].slot = pc[Writer].slot

\* The record is in the chain of its key in some trie.
Stored(key, tag) ==
  \E i \in 1..Len(trie_vec_) : \E p \in 1..Len(trie_vec_[i][key]) : trie_vec_[i][key][p] = tag
Inserting(key, tag) ==
  pc[Writer].at # "idle" /\ pc[Writer].key = key /\ pc[Writer].tag = tag

\* C18: every Insert returns, with its record stored in some trie, when the
\* trie appended for it accepts the key; a turn of the loop that does not end
\* the loop is an arena_full answer of a trie without the key, followed by
\* the next trie, appended when there was none.
C18_InsertReturnsStored ==
  /\ \A key \in UserKeys, tag \in Tags :
       Inserting(key, tag) ~> (pc[Writer].at = "idle" /\ Stored(key, tag))
  /\ [][(pc[Writer].at = "loop" /\ pc'[Writer].at = "loop") =>
          /\ pc[Writer].i \in pc[Writer].refuse
          /\ ~Holds(trie_vec_, pc[Writer].i, pc[Writer].key)
          /\ pc'[Writer].i = pc[Writer].i + 1
          /\ Len(trie_vec_') = IF pc[Writer].i = Len(trie_vec_)
                               THEN Len(trie_vec_) + 1 ELSE Len(trie_vec_)
          /\ num_entries_' = num_entries_]_vars

C18_Witness ==
  /\ pc[Writer].at = "idle"
  /\ num_entries_ = 2
  /\ Len(trie_vec_) = 2
  /\ \E key \in UserKeys : Holds(trie_vec_, 1, key) /\ Holds(trie_vec_, 2, key)

\* A 64-bit value as a 128-bit one, and the block sizes as numbers without
\* a width: base * 2^i for i = 0 .. n - 1, each the double of the one before,
\* which 128 bits hold for every base and every n <= 64.
Wide(b) == <<b[1], b[2], b[3], b[4], b[5], b[6], b[7], b[8], 0, 0, 0, 0, 0, 0, 0, 0>>
\* Byte j of w + w: its low seven bits moved up, the carry of the byte below.
ShiftedByte(w, j) == ((w[j] * 2) % 256) + (IF j = 1 THEN 0 ELSE w[j - 1] \div 128)
Twice(w) ==
  <<ShiftedByte(w, 1), ShiftedByte(w, 2), ShiftedByte(w, 3), ShiftedByte(w, 4),
    ShiftedByte(w, 5), ShiftedByte(w, 6), ShiftedByte(w, 7), ShiftedByte(w, 8),
    ShiftedByte(w, 9), ShiftedByte(w, 10), ShiftedByte(w, 11), ShiftedByte(w, 12),
    ShiftedByte(w, 13), ShiftedByte(w, 14), ShiftedByte(w, 15), ShiftedByte(w, 16)>>
RECURSIVE Doublings(_, _)
Doublings(q, n) ==
  IF Len(q) >= n THEN q ELSE Doublings(Append(q, Twice(q[Len(q)])), n)

\* C21: the first trie has the block size of the allocator and trie i (from
\* 0) has that block size doubled i times, for every trie of the vector,
\* after any sequence of Inserts.
C21_GeometricGrowth ==
  LET want == Doublings(<<Wide(allocator_)>>, Len(trie_vec_))
  IN /\ Len(block_size) = Len(trie_vec_)
     /\ block_size[1] = allocator_
     /\ \A i \in 1..Len(trie_vec_) : Wide(block_size[i]) = want[i]

C21_Witness ==
  /\ Len(trie_vec_) = trie_vec_capacity + 1
  /\ allocator_ = <<0, 0, 0, 128, 0, 0, 0, 0>>
  /\ block_size[Len(trie_vec_)] = <<0, 0, 0, 0, 0, 0, 0, 128>>
  /\ num_entries_ >= 2

\* The mutexes a thread holds, a thread waiting for a mutex, a thread inside
\* a locked block.
Held(t) == {m \in DOMAIN mutex_ : mutex_[m] = t}
Waiting(t) == pc[t].at \in {"lock", "lock2"}
InBlock(t) == pc[t].at \in {"cs", "cs2"}

\* C22: a thread holds at most one shard mutex, and none while it waits for
\* one or is outside a locked block; so a held mutex is held by a thread that
\* is running its locked block, no threads wait for each other, and under
\* fair scheduling every thread that waits for a mutex gets it.
C22_OneShardMutexNoDeadlock ==
  /\ [](\A t \in Threads :
          /\ Cardinality(Held(t)) <= 1
          /\ ~InBlock(t) => Held(t) = {}
          /\ Waiting(t) =>
               \/ mutex_[MutexOf(pc[t].slot)] = "free"
               \/ InBlock(mutex_[MutexOf(pc[t].slot)]))
  /\ \A t \in Threads : Waiting(t) ~> InBlock(t)

C22_Witness ==
  /\ pc[Iter].at = "lock2"
  /\ mutex_[MutexOf(pc[Iter].slot)] = Writer
  /\ pc[Reader].at = "lock"
  /\ MutexOf(pc[Reader].slot) = MutexOf(pc[Iter].slot)

\* C23: Next and Prev are inverse steps: with no Insert since the iterator was
\* taken, a step from record r that leaves the iterator valid, followed by the
\* opposite step, leaves it valid on r, for a single trie and for several.
C23_NextPrevInverse ==
  (it_state = "live" /\ scan.start = "turn" /\ scan.fresh) =>
    /\ Valid
    /\ Len(scan.out) = 2
    /\ scan.out[2] = scan.out[1]
====
